---- MODULE Spec2Model ----
(***************************************************************************)
(* Session lifecycle of the mock-interview backend (backend/main.py):       *)
(* the in-memory cache SESSIONS, the working copies <id>.work.json, the     *)
(* summaries <id>.json and the synthesized audio files under data/audio.    *)
(* Every request handler is one action; process restarts and the I/O        *)
(* failures the handlers catch are inputs of the actions.                   *)
(***************************************************************************)
EXTENDS Integers, Sequences, FiniteSets, TLC

VARIABLES
    SESSIONS,      \* main.py:37   session id -> <<>> (no entry) or <<session dict>>
    workFile,      \* main.py:43   session id -> the file DATA_DIR/<id>.work.json
    summaryFile,   \* main.py:230  session id -> the file DATA_DIR/<id>.json
    audioDir,      \* tts_openai.py:20  names of the files in AUDIO_DIR
    usedIds,       \* ids uuid4() has already returned
    lastSave,      \* history: session id -> outcome of its latest _save_session
    produced,      \* history: every audio file name ever written
    picked,        \* history: session id -> the questions start_session picked
    faults,        \* environment: I/O and synthesis failures injected so far
    restarts,      \* environment: process restarts so far
    crashed,       \* history: the handler the latest crash interrupted, if any
    threads        \* request thread -> the handler it runs, its position and its locals

vars == <<SESSIONS, workFile, summaryFile, audioDir, usedIds, lastSave, produced, picked,
          faults, restarts, crashed, threads>>

----------------------------------------------------------------------------
(* Input domains *)

\* Session ids a client may send; start_session draws fresh ones from it.
SessionIds == {"s1"}

\* models.py:6-7
InterviewerStyle == {"neutral", "challenging"}
FeedbackMode == {"real", "fake", "none"}

\* SessionConfig.dict() values the clients send
ConfigInputs ==
    { [interviewer_style |-> "neutral", feedback_mode |-> "real"],
      [interviewer_style |-> "challenging", feedback_mode |-> "none"] }

\* VoiceFeatures.dict() values, opaque to the lifecycle
VoiceFeatureInputs == {"featA"}

\* AnswerUpload payloads
AnswerInputs ==
    { [question_id |-> 1, transcript |-> <<"I led a project">>, voice_features |-> "featB"] }

\* SurveyResponse.dict() values, opaque
SurveyInputs == {"surveyA"}

\* openai_llm.py:83-101, a pool larger than the sample
GENERAL_QUESTIONS == <<"challenge", "team", "learn", "mistake">>


\* openai_llm.py:111  random.sample(GENERAL_QUESTIONS, k=3)
NumQuestions == 3

\* How many I/O or synthesis failures one behaviour may contain.
MaxFaults == 1

\* How many times the process may restart in one behaviour.
MaxRestarts == 1

\* Python None / a missing optional value is <<>>, a present value v is <<v>>.
None == <<>>
Some(v) == <<v>>

\* A file: absent, present with a JSON document, or present but unparsable
\* (truncated by a write that failed after open("w")).
NoFile == [exists |-> FALSE, data |-> <<>>]
Unparsable == [exists |-> TRUE, data |-> <<>>]
FileWith(doc) == [exists |-> TRUE, data |-> <<doc>>]
Loadable(f) == f.exists /\ f.data # <<>>

----------------------------------------------------------------------------
(* Collaborators *)

\* openai_llm.py:104-111
pick_three_questions ==
    IF Len(GENERAL_QUESTIONS) <= NumQuestions
    THEN {GENERAL_QUESTIONS}
    ELSE { q \in [1..NumQuestions -> {GENERAL_QUESTIONS[i] : i \in DOMAIN GENERAL_QUESTIONS}] :
             \A i, j \in 1..NumQuestions : i # j => q[i] # q[j] }

\* the samples random.sample is let to return in this model
SampledQuestions ==
    { q \in pick_three_questions : q = <<"challenge", "team", "learn">> }

\* tts_openai.py:37  f"{session_id}_q{q_index}_{kind}.mp3"
FileName(session_id, q_index, kind) ==
    [sid |-> session_id, q |-> q_index, kind |-> kind]

\* tts_openai.py:70  f"/audio/{filename}"
UrlOf(filename) == <<"/audio/", filename>>

\* the empty string returned when synthesis fails
EmptyUrl == <<>>

\* main.py:241-244  url.split("/audio/")[-1]
FileNameOfUrl(url) == url[Len(url)]

----------------------------------------------------------------------------
(* Session store *)

\* main.py:81-91
InitialSession(questions) ==
    [ consent |-> TRUE,
      config |-> None,
      baseline |-> None,
      questions |-> [i \in 1..Len(questions) |-> [id |-> i, text |-> questions[i]]],
      answers |-> <<>>,
      current_q_index |-> 0,
      audio_files |-> {},
      survey |-> None ]

\* main.py:47-60 without the fallback to the working copy (lines 51-59)
GetSessionCacheOnly(session_id) ==
    SESSIONS[session_id]

\* main.py:47-60 with the working copy read before the cache
GetSessionDiskFirst(session_id) ==
    IF Loadable(workFile[session_id])
    THEN workFile[session_id].data
    ELSE SESSIONS[session_id]

\* main.py:47-60  the value _get_session returns: <<>> for None
GetSession(session_id) ==
    IF SESSIONS[session_id] # None
    THEN SESSIONS[session_id]
    ELSE IF Loadable(workFile[session_id])
         THEN workFile[session_id].data
         ELSE None

\* main.py:56  the cache after _get_session: a loaded working copy is cached
CacheAfterGet(session_id) ==
    [SESSIONS EXCEPT ![session_id] = GetSession(session_id)]

\* outcomes of open("w") + json.dump: written, open raised, dump raised
SaveOutcomes == {"ok", "open_failed", "write_failed"}

\* main.py:63-68  the working copy after _save_session(session_id, sess)
SavedFile(old, sess, outcome) ==
    CASE outcome = "ok" -> FileWith(sess)
      [] outcome = "open_failed" -> old
      [] OTHER -> Unparsable

SaveSession(session_id, sess, outcome) ==
    [workFile EXCEPT ![session_id] = SavedFile(workFile[session_id], sess, outcome)]

\* An injected failure is paid from the budget MaxFaults.
Cost(outcome) == IF outcome = "ok" THEN 0 ELSE 1
CostOf(ok) == IF ok THEN 0 ELSE 1
Inject(n) ==
    /\ faults + n <= MaxFaults
    /\ faults' = faults + n

\* A crash inside a handler takes the whole budget: it is the only failure of
\* its behaviour.
CrashCost == MaxFaults

\* history of _save_session outcomes
Saved(session_id, outcome) ==
    lastSave' = [lastSave EXCEPT ![session_id] = IF outcome = "ok" THEN "ok" ELSE "failed"]

\* The worker threads of the server: the handlers are plain functions
\* (main.py:74, 98, 110, 160, 210), each request runs on a thread of its own.
Threads == {"t1", "t2"}

\* A thread that runs no request. alias tells whether the local sess is the
\* dict held in SESSIONS; sess holds the dict once it is no longer in SESSIONS.
IdleThread ==
    [ handler |-> "none", pc |-> "idle", session_id |-> "", arg |-> None,
      alias |-> FALSE, sess |-> None, idx |-> 0, loaded |-> 0, result |-> "none" ]

----------------------------------------------------------------------------
Init ==
    /\ SESSIONS = [s \in SessionIds |-> None]
    /\ workFile = [s \in SessionIds |-> NoFile]
    /\ summaryFile = [s \in SessionIds |-> NoFile]
    /\ audioDir = {}
    /\ usedIds = {}
    /\ lastSave = [s \in SessionIds |-> "none"]
    /\ produced = {}
    /\ picked = [s \in SessionIds |-> <<>>]
    /\ faults = 0
    /\ restarts = 0
    /\ crashed = "none"
    /\ threads = [t \in Threads |-> IdleThread]

\* A request that raises HTTPException after _get_session: nothing changes
\* but the cache, which keeps a working copy _get_session loaded.
Rejected(session_id) ==
    /\ SESSIONS' = CacheAfterGet(session_id)
    /\ UNCHANGED <<workFile, summaryFile, audioDir, usedIds, lastSave, produced, picked,
                   faults, restarts, crashed, threads>>

\* main.py:75-76, 93  what start_session returns
StartStatus(accepted) ==
    IF ~accepted THEN "consent_not_accepted" ELSE "ok"

\* main.py:73-93
StartSession(accepted, questions, outcome) ==
    IF StartStatus(accepted) # "ok"
    THEN UNCHANGED vars
    ELSE \E session_id \in SessionIds \ usedIds :
         /\ Inject(Cost(outcome))
         /\ usedIds' = usedIds \cup {session_id}
         /\ SESSIONS' = [SESSIONS EXCEPT ![session_id] = Some(InitialSession(questions))]
         /\ workFile' = SaveSession(session_id, InitialSession(questions), outcome)
         /\ Saved(session_id, outcome)
         /\ picked' = [picked EXCEPT ![session_id] = questions]
         /\ UNCHANGED <<summaryFile, audioDir, produced, restarts, crashed, threads>>

\* main.py:99-101, 112-114  what set_config and upload_baseline return
SessionStatus(session_id) ==
    IF GetSession(session_id) = None THEN "not_found" ELSE "ok"

\* main.py:97-105
SetConfig(session_id, config, outcome) ==
    IF SessionStatus(session_id) # "ok"
    THEN Rejected(session_id)
    ELSE LET sess == [GetSession(session_id)[1] EXCEPT !.config = Some(config)] IN
         /\ Inject(Cost(outcome))
         /\ SESSIONS' = [SESSIONS EXCEPT ![session_id] = Some(sess)]
         /\ workFile' = SaveSession(session_id, sess, outcome)
         /\ Saved(session_id, outcome)
         /\ UNCHANGED <<summaryFile, audioDir, usedIds, produced, picked, restarts, crashed, threads>>

\* main.py:109-118
UploadBaseline(session_id, features, outcome) ==
    IF SessionStatus(session_id) # "ok"
    THEN Rejected(session_id)
    ELSE LET sess == [GetSession(session_id)[1] EXCEPT !.baseline = Some(features)] IN
         /\ Inject(Cost(outcome))
         /\ SESSIONS' = [SESSIONS EXCEPT ![session_id] = Some(sess)]
         /\ workFile' = SaveSession(session_id, sess, outcome)
         /\ Saved(session_id, outcome)
         /\ UNCHANGED <<summaryFile, audioDir, usedIds, produced, picked, restarts, crashed, threads>>

\* tts_openai.py:24-79  synthesize_tts: the url returned, "" when the text
\* is empty or the synthesis failed
SynthesizedUrl(text, session_id, q_index, kind, ttsOk) ==
    IF text = "" \/ ~ttsOk
    THEN EmptyUrl
    ELSE UrlOf(FileName(session_id, q_index, kind))

\* tts_openai.py:61-67  the files of AUDIO_DIR after synthesize_tts
FilesAfterTts(files, url) ==
    IF url = EmptyUrl THEN files ELSE files \cup {FileNameOfUrl(url)}

\* main.py:146-147, 199-200 with the test of audio_url left out
AppendAudioAlways(sess, url) ==
    [sess EXCEPT !.audio_files = @ \cup {url}]

\* main.py:146-147, 199-200  if audio_url: sess["audio_files"].append(audio_url)
\* (audio_files is only appended to and iterated for deletion: it is kept as
\* the set of its elements)
AppendAudio(sess, url) ==
    IF url = EmptyUrl THEN sess
    ELSE [sess EXCEPT !.audio_files = @ \cup {url}]

\* main.py:123-129  what get_next_question returns
NextQuestionStatus(session_id) ==
    LET got == GetSession(session_id) IN
    IF got = None THEN "not_found"
    ELSE IF got[1].current_q_index >= Len(got[1].questions) THEN "no_more_questions"
    ELSE "ok"

\* main.py:131-155 with the cursor returned as the question id
NextQuestionResponseZeroBased(session_id, ttsOk) ==
    LET sess == GetSession(session_id)[1]
        idx == sess.current_q_index
        q == sess.questions[idx + 1] IN
    [ id |-> idx, text |-> q.text,
      audio_url |-> SynthesizedUrl(q.text, session_id, idx + 1, "question", ttsOk) ]

\* main.py:131-155  the Question returned
NextQuestionResponse(session_id, ttsOk) ==
    LET sess == GetSession(session_id)[1]
        idx == sess.current_q_index
        q == sess.questions[idx + 1] IN
    [ id |-> q.id, text |-> q.text,
      audio_url |-> SynthesizedUrl(q.text, session_id, idx + 1, "question", ttsOk) ]

\* main.py:121-155
NextQuestion(session_id, ttsOk) ==
    IF NextQuestionStatus(session_id) # "ok"
    THEN Rejected(session_id)
    ELSE LET sess == GetSession(session_id)[1]
             audio_url == NextQuestionResponse(session_id, ttsOk).audio_url IN
         /\ Inject(CostOf(ttsOk))
         /\ audioDir' = FilesAfterTts(audioDir, audio_url)
         /\ produced' = FilesAfterTts(produced, audio_url)
         /\ SESSIONS' = [SESSIONS EXCEPT ![session_id] = Some(AppendAudio(sess, audio_url))]
         /\ UNCHANGED <<workFile, summaryFile, usedIds, lastSave, picked, restarts, crashed, threads>>

\* outcomes of the chat completion: a text, or an exception
LlmOutcomes == {"text", "error"}

\* openai_llm.py:115-165  generate_followup
generate_followup(style, question, transcript, llm) ==
    IF llm = "text"
    THEN "generated feedback"
    ELSE IF style = "neutral"
         THEN "fallback neutral"
         ELSE "fallback challenging"

\* main.py:175-180
AnswerRecord(payload, q) ==
    [ question_id |-> payload.question_id,
      question_text |-> q.text,
      transcript |-> payload.transcript,
      voice_features |-> payload.voice_features ]

\* main.py:181-182 with the increment of line 182 left out
AcceptedNoIncrement(sess, answer_record) ==
    [sess EXCEPT !.answers = Append(@, answer_record)]

\* main.py:181-182 with the cursor advanced by two
AcceptedDoubleIncrement(sess, answer_record) ==
    [sess EXCEPT !.answers = Append(@, answer_record),
                 !.current_q_index = @ + 2]

\* main.py:181-182
Accepted(sess, answer_record) ==
    [sess EXCEPT !.answers = Append(@, answer_record),
                 !.current_q_index = @ + 1]

\* main.py:161-170 with the bound of line 169 off by one (idx > len)
SubmitAnswerStatusOffByOne(session_id) ==
    LET got == GetSession(session_id) IN
    IF got = None THEN "not_found"
    ELSE IF got[1].config = None THEN "config_not_set"
    ELSE IF got[1].current_q_index > Len(got[1].questions) THEN "no_more_questions"
    ELSE "ok"

\* main.py:161-170 with the config check of lines 165-166 made on the baseline
SubmitAnswerStatusChecksBaseline(session_id) ==
    LET got == GetSession(session_id) IN
    IF got = None THEN "not_found"
    ELSE IF got[1].baseline = None THEN "config_not_set"
    ELSE IF got[1].current_q_index >= Len(got[1].questions) THEN "no_more_questions"
    ELSE "ok"

\* main.py:161-170  what submit_answer returns
SubmitAnswerStatus(session_id) ==
    LET got == GetSession(session_id) IN
    IF got = None THEN "not_found"
    ELSE IF got[1].config = None THEN "config_not_set"
    ELSE IF got[1].current_q_index >= Len(got[1].questions) THEN "no_more_questions"
    ELSE "ok"

\* main.py:185-206  the FollowupResponse returned
SubmitAnswerResponse(session_id, payload, llm, ttsOk) ==
    LET sess == GetSession(session_id)[1]
        idx == sess.current_q_index
        q == sess.questions[idx + 1]
        followup_text == generate_followup(sess.config[1].interviewer_style, q.text,
                                           payload.transcript, llm) IN
    [ followup_text |-> followup_text,
      audio_url |-> SynthesizedUrl(followup_text, session_id, idx + 1, "followup", ttsOk) ]

\* main.py:159-206
SubmitAnswer(session_id, payload, outcome, llm, ttsOk) ==
    IF SubmitAnswerStatus(session_id) # "ok"
    THEN Rejected(session_id)
    ELSE LET sess == GetSession(session_id)[1]
             q == sess.questions[sess.current_q_index + 1]
             saved == Accepted(sess, AnswerRecord(payload, q))
             audio_url == SubmitAnswerResponse(session_id, payload, llm, ttsOk).audio_url IN
         /\ Inject(Cost(outcome) + CostOf(ttsOk))
         /\ workFile' = SaveSession(session_id, saved, outcome)
         /\ Saved(session_id, outcome)
         /\ audioDir' = FilesAfterTts(audioDir, audio_url)
         /\ produced' = FilesAfterTts(produced, audio_url)
         /\ SESSIONS' = [SESSIONS EXCEPT ![session_id] = Some(AppendAudio(saved, audio_url))]
         /\ UNCHANGED <<summaryFile, usedIds, picked, restarts, crashed, threads>>

\* where a crash may interrupt submit_answer after its save: in
\* generate_followup (main.py:186), or in synthesize_tts once the audio file
\* is written (main.py:189-194)
AnswerCrashPoints == {"in_followup", "in_tts"}

\* main.py:159-197 with _save_session called after the collaborators instead
\* of before them: a crash inside them finds the working copy not yet written
CrashInSubmitAnswerBeforeSave(session_id, payload, point) ==
    /\ SubmitAnswerStatus(session_id) = "ok"
    /\ restarts < MaxRestarts
    /\ LET audio_url == IF point = "in_tts"
                        THEN SubmitAnswerResponse(session_id, payload, "text", TRUE).audio_url
                        ELSE EmptyUrl IN
       /\ Inject(CrashCost)
       /\ audioDir' = FilesAfterTts(audioDir, audio_url)
       /\ produced' = FilesAfterTts(produced, audio_url)
       /\ SESSIONS' = [s \in SessionIds |-> None]
       /\ restarts' = restarts + 1
       /\ crashed' = "answer"
       /\ UNCHANGED <<workFile, lastSave, summaryFile, usedIds, picked, threads>>

\* main.py:159-197  submit_answer interrupted by a crash of the process after
\* _save_session (line 183) has written the working copy and before the
\* handler returns: the cache is lost
CrashInSubmitAnswer(session_id, payload, point) ==
    /\ SubmitAnswerStatus(session_id) = "ok"
    /\ restarts < MaxRestarts
    /\ LET sess == GetSession(session_id)[1]
           q == sess.questions[sess.current_q_index + 1]
           saved == Accepted(sess, AnswerRecord(payload, q))
           audio_url == IF point = "in_tts"
                        THEN SubmitAnswerResponse(session_id, payload, "text", TRUE).audio_url
                        ELSE EmptyUrl IN
       /\ Inject(CrashCost)
       /\ workFile' = SaveSession(session_id, saved, "ok")
       /\ Saved(session_id, "ok")
       /\ audioDir' = FilesAfterTts(audioDir, audio_url)
       /\ produced' = FilesAfterTts(produced, audio_url)
       /\ SESSIONS' = [s \in SessionIds |-> None]
       /\ restarts' = restarts + 1
       /\ crashed' = "answer"
       /\ UNCHANGED <<summaryFile, usedIds, picked, threads>>

\* models.py:35-38  Question(**q).dict()
QuestionDict(q) == [id |-> q.id, text |-> q.text, audio_url |-> None]

\* main.py:220-228 with the questions cut at the cursor
SummaryDictAskedOnly(session_id, sess) ==
    [ session_id |-> session_id,
      interviewer_style |-> sess.config[1].interviewer_style,
      feedback_mode |-> sess.config[1].feedback_mode,
      baseline |-> sess.baseline,
      questions |-> [i \in 1..sess.current_q_index |-> QuestionDict(sess.questions[i])],
      answers |-> sess.answers,
      survey |-> sess.survey ]

\* main.py:220-228, models.py:64-71  SessionSummary(...).dict()
SummaryDict(session_id, sess) ==
    [ session_id |-> session_id,
      interviewer_style |-> sess.config[1].interviewer_style,
      feedback_mode |-> sess.config[1].feedback_mode,
      baseline |-> sess.baseline,
      questions |-> [i \in 1..Len(sess.questions) |-> QuestionDict(sess.questions[i])],
      answers |-> sess.answers,
      survey |-> sess.survey ]

\* main.py:236-254  the files of AUDIO_DIR after the deletion loop (every
\* unlink of an existing file succeeds, a missing file is skipped)
FilesAfterCleanup(files, audio_files) ==
    files \ { FileNameOfUrl(url) : url \in audio_files }

\* main.py:257-262  the working copy after unlink: gone, or left in place
\* when unlink raised something other than FileNotFoundError
UnlinkedFile(old, unlinkOk) ==
    IF unlinkOk THEN NoFile ELSE old

\* A failed unlink of an existing working copy takes the whole budget: it is
\* the only failure of its behaviour.
UnlinkCost(old, unlinkOk) ==
    IF unlinkOk \/ ~old.exists THEN 0 ELSE MaxFaults

\* main.py:211-232 with the config check of lines 216-218 left out
FinishStatusNoConfigCheck(session_id, outcome) ==
    LET got == GetSession(session_id) IN
    IF got = None THEN "not_found"
    ELSE IF outcome # "ok" THEN "server_error"
    ELSE "ok"

\* main.py:211-232, 264  what finish_session returns; the summary write is
\* not guarded, a failure of it ends the request with a server error
FinishStatus(session_id, outcome) ==
    LET got == GetSession(session_id) IN
    IF got = None THEN "not_found"
    ELSE IF got[1].config = None THEN "config_not_set"
    ELSE IF outcome # "ok" THEN "server_error"
    ELSE "ok"

\* main.py:220-228, 264  the summary finish_session returns
FinishResponse(session_id) ==
    SummaryDict(session_id, GetSession(session_id)[1])

\* main.py:209-264
FinishSession(session_id, outcome, unlinkOk) ==
    LET status == FinishStatus(session_id, outcome) IN
    IF status \in {"not_found", "config_not_set"}
    THEN Rejected(session_id)
    ELSE LET sess == GetSession(session_id)[1]
             summary == FinishResponse(session_id) IN
         IF status = "server_error"
         THEN /\ Inject(1)
              /\ summaryFile' = [summaryFile EXCEPT ![session_id] = SavedFile(@, summary, outcome)]
              /\ SESSIONS' = CacheAfterGet(session_id)
              /\ UNCHANGED <<workFile, audioDir, usedIds, lastSave, produced, picked, restarts, crashed, threads>>
         ELSE /\ Inject(UnlinkCost(workFile[session_id], unlinkOk))
              /\ summaryFile' = [summaryFile EXCEPT ![session_id] = FileWith(summary)]
              /\ audioDir' = FilesAfterCleanup(audioDir, sess.audio_files)
              /\ SESSIONS' = [SESSIONS EXCEPT ![session_id] = None]
              /\ workFile' = [workFile EXCEPT ![session_id] = UnlinkedFile(@, unlinkOk)]
              /\ lastSave' = [lastSave EXCEPT ![session_id] =
                                IF workFile'[session_id].exists THEN @ ELSE "none"]
              /\ UNCHANGED <<usedIds, produced, picked, restarts, crashed, threads>>

\* where a crash may interrupt finish_session after the summary is written:
\* before the deletion loop (main.py:236) or after it (main.py:256-258)
FinishCrashPoints == {"after_summary", "after_audio"}

\* main.py:209-258  finish_session interrupted by a crash of the process after
\* the summary is written (line 232) and before the working copy is unlinked
\* (line 258): the cache is lost, both files stay
CrashInFinish(session_id, point) ==
    /\ FinishStatus(session_id, "ok") = "ok"
    /\ restarts < MaxRestarts
    /\ LET sess == GetSession(session_id)[1] IN
       /\ Inject(CrashCost)
       /\ summaryFile' = [summaryFile EXCEPT ![session_id] = FileWith(FinishResponse(session_id))]
       /\ audioDir' = IF point = "after_audio"
                      THEN FilesAfterCleanup(audioDir, sess.audio_files)
                      ELSE audioDir
       /\ SESSIONS' = [s \in SessionIds |-> None]
       /\ restarts' = restarts + 1
       /\ crashed' = "finish"
       /\ UNCHANGED <<workFile, usedIds, lastSave, produced, picked, threads>>

\* main.py:271-292 with the session looked up first, as the other handlers do
SubmitSurveyStatusNeedsSession(session_id, outcome) ==
    IF GetSession(session_id) = None THEN "summary_not_found"
    ELSE IF ~summaryFile[session_id].exists THEN "summary_not_found"
    ELSE IF ~Loadable(summaryFile[session_id]) THEN "server_error"
    ELSE IF outcome # "ok" THEN "server_error"
    ELSE "ok"

\* main.py:271-292, 299  what submit_survey returns
SubmitSurveyStatus(session_id, outcome) ==
    IF ~summaryFile[session_id].exists THEN "summary_not_found"
    ELSE IF ~Loadable(summaryFile[session_id]) THEN "server_error"
    ELSE IF outcome # "ok" THEN "server_error"
    ELSE "ok"

\* main.py:266-299
SubmitSurvey(session_id, survey, outcome) ==
    LET status == SubmitSurveyStatus(session_id, outcome) IN
    IF status = "summary_not_found" \/ ~Loadable(summaryFile[session_id])
    THEN UNCHANGED vars
    ELSE LET data == [summaryFile[session_id].data[1] EXCEPT !.survey = Some(survey)] IN
         /\ Inject(Cost(outcome))
         /\ summaryFile' = [summaryFile EXCEPT ![session_id] = SavedFile(@, data, outcome)]
         /\ SESSIONS' = IF status = "ok" /\ SESSIONS[session_id] # None
                        THEN [SESSIONS EXCEPT ![session_id] =
                                Some([@[1] EXCEPT !.survey = Some(survey)])]
                        ELSE SESSIONS
         /\ UNCHANGED <<workFile, audioDir, usedIds, lastSave, produced, picked, restarts, crashed, threads>>

\* main.py:313-316  what download_session returns
DownloadStatus(session_id) ==
    IF summaryFile[session_id].exists THEN "ok" ELSE "summary_not_found"

\* main.py:311-316
DownloadSession(session_id) ==
    /\ DownloadStatus(session_id) \in {"ok", "summary_not_found"}
    /\ UNCHANGED vars

\* The process stops and starts again: the module-level SESSIONS (main.py:37)
\* is empty, the files stay.
Restart ==
    /\ restarts < MaxRestarts
    /\ \E s \in SessionIds : SESSIONS[s] # None
    /\ restarts' = restarts + 1
    /\ SESSIONS' = [s \in SessionIds |-> None]
    /\ UNCHANGED <<workFile, summaryFile, audioDir, usedIds, lastSave, produced, picked, faults, crashed, threads>>

Next ==
    \/ \E a \in BOOLEAN, q \in SampledQuestions, o \in SaveOutcomes : StartSession(a, q, o)
    \/ \E s \in SessionIds, c \in ConfigInputs, o \in SaveOutcomes : SetConfig(s, c, o)
    \/ \E s \in SessionIds, f \in VoiceFeatureInputs, o \in SaveOutcomes : UploadBaseline(s, f, o)
    \/ \E s \in SessionIds, t \in BOOLEAN : NextQuestion(s, t)
    \/ \E s \in SessionIds, p \in AnswerInputs, o \in SaveOutcomes, l \in LlmOutcomes, t \in BOOLEAN :
          SubmitAnswer(s, p, o, l, t)
    \/ \E s \in SessionIds, o \in SaveOutcomes, u \in BOOLEAN : FinishSession(s, o, u)
    \/ \E s \in SessionIds, v \in SurveyInputs, o \in SaveOutcomes : SubmitSurvey(s, v, o)
    \/ \E s \in SessionIds : DownloadSession(s)
    \/ Restart
    \/ \E s \in SessionIds, p \in AnswerInputs, c \in AnswerCrashPoints :
          CrashInSubmitAnswer(s, p, c)
    \/ \E s \in SessionIds, c \in FinishCrashPoints : CrashInFinish(s, c)

Spec == Init /\ [][Next]_vars

----------------------------------------------------------------------------
(* Concurrent requests on one session.                                      *)
(* The handlers take no lock (main.py:37 is a plain dict): the steps of two *)
(* requests interleave. Each thread runs one request; a step is the part of *)
(* a handler between two accesses to the shared state.                      *)

\* the dict the local variable sess of thread t refers to
ThreadSess(t) ==
    IF threads[t].alias
    THEN SESSIONS[threads[t].session_id][1]
    ELSE threads[t].sess[1]

\* thread t stores through its reference sess and becomes thr: the write
\* lands in the cached dict while sess is that dict, in t's own dict after
\* del SESSIONS[session_id] (main.py:256) has taken it out of the cache
StoreThroughSess(t, new, thr) ==
    IF threads[t].alias
    THEN /\ SESSIONS' = [SESSIONS EXCEPT ![threads[t].session_id] = Some(new)]
         /\ threads' = [threads EXCEPT ![t] = thr]
    ELSE /\ SESSIONS' = SESSIONS
         /\ threads' = [threads EXCEPT ![t] = [thr EXCEPT !.sess = Some(new)]]

\* a request that has returned: its locals are gone
Returned(thr, result) ==
    [thr EXCEPT !.pc = "done", !.result = result, !.alias = FALSE, !.sess = None]

\* main.py:47-60 then an HTTPException, or the first statement after the
\* guards: thread t leaves "idle"
EnterHandler(t, handler, session_id, arg, status, pc) ==
    LET thr == [IdleThread EXCEPT !.handler = handler, !.session_id = session_id,
                                  !.arg = arg] IN
    /\ threads[t].pc = "idle"
    /\ SESSIONS' = CacheAfterGet(session_id)
    /\ threads' = [threads EXCEPT ![t] =
                     IF status # "ok"
                     THEN Returned(thr, status)
                     ELSE [thr EXCEPT !.pc = pc, !.alias = TRUE,
                                      !.idx = GetSession(session_id)[1].current_q_index]]
    /\ UNCHANGED <<workFile, summaryFile, audioDir, usedIds, lastSave, produced, picked,
                   faults, restarts, crashed>>

\* main.py:63-68, called at lines 104, 117, 183: thread t writes the dict its
\* sess refers to into the working copy, whether or not SESSIONS still has it
SaveThroughSess(t, pc) ==
    /\ workFile' = SaveSession(threads[t].session_id, ThreadSess(t), "ok")
    /\ Saved(threads[t].session_id, "ok")
    /\ threads' = [threads EXCEPT ![t] =
                     IF pc = "done" THEN Returned(@, "ok") ELSE [@ EXCEPT !.pc = pc]]
    /\ UNCHANGED <<SESSIONS, summaryFile, audioDir, usedIds, produced, picked,
                   faults, restarts, crashed>>

\* main.py:99-101  set_config: sess = _get_session(session_id), 404 when None
SetConfigGet(t, session_id, config) ==
    EnterHandler(t, "set_config", session_id, Some(config), SessionStatus(session_id), "assign")

\* main.py:103  sess["config"] = config.dict()
SetConfigAssign(t) ==
    /\ threads[t].handler = "set_config" /\ threads[t].pc = "assign"
    /\ StoreThroughSess(t, [ThreadSess(t) EXCEPT !.config = threads[t].arg],
                        [threads[t] EXCEPT !.pc = "save"])
    /\ UNCHANGED <<workFile, summaryFile, audioDir, usedIds, lastSave, produced, picked,
                   faults, restarts, crashed>>

\* main.py:104-105  _save_session(session_id, sess); return
SetConfigSave(t) ==
    /\ threads[t].handler = "set_config" /\ threads[t].pc = "save"
    /\ SaveThroughSess(t, "done")

\* main.py:112-114  upload_baseline: sess = _get_session(session_id), 404 when None
UploadBaselineGet(t, session_id, features) ==
    EnterHandler(t, "upload_baseline", session_id, Some(features), SessionStatus(session_id),
                 "assign")

\* main.py:116  sess["baseline"] = baseline.voice_features.dict()
UploadBaselineAssign(t) ==
    /\ threads[t].handler = "upload_baseline" /\ threads[t].pc = "assign"
    /\ StoreThroughSess(t, [ThreadSess(t) EXCEPT !.baseline = threads[t].arg],
                        [threads[t] EXCEPT !.pc = "save"])
    /\ UNCHANGED <<workFile, summaryFile, audioDir, usedIds, lastSave, produced, picked,
                   faults, restarts, crashed>>

\* main.py:117-118  _save_session(session_id, sess); return
UploadBaselineSave(t) ==
    /\ threads[t].handler = "upload_baseline" /\ threads[t].pc = "save"
    /\ SaveThroughSess(t, "done")

\* main.py:161-170  submit_answer: the session is fetched, idx is read and
\* the guards are checked
SubmitAnswerCheck(t, session_id, payload) ==
    EnterHandler(t, "submit_answer", session_id, Some(payload),
                 SubmitAnswerStatus(session_id), "append")

\* main.py:172-181  q = sess["questions"][idx]; sess["answers"].append(answer_record)
SubmitAnswerAppend(t) ==
    /\ threads[t].handler = "submit_answer" /\ threads[t].pc = "append"
    /\ LET sess == ThreadSess(t)
           q == sess.questions[threads[t].idx + 1] IN
       StoreThroughSess(t, AcceptedNoIncrement(sess, AnswerRecord(threads[t].arg[1], q)),
                        [threads[t] EXCEPT !.pc = "load_index"])
    /\ UNCHANGED <<workFile, summaryFile, audioDir, usedIds, lastSave, produced, picked,
                   faults, restarts, crashed>>

\* main.py:182  sess["current_q_index"] += 1, first half: the value is read
SubmitAnswerLoadIndex(t) ==
    /\ threads[t].handler = "submit_answer" /\ threads[t].pc = "load_index"
    /\ threads' = [threads EXCEPT ![t] = [@ EXCEPT !.pc = "store_index",
                                                    !.loaded = ThreadSess(t).current_q_index]]
    /\ UNCHANGED <<SESSIONS, workFile, summaryFile, audioDir, usedIds, lastSave, produced,
                   picked, faults, restarts, crashed>>

\* main.py:182  sess["current_q_index"] += 1, second half: the sum is stored
SubmitAnswerStoreIndex(t) ==
    /\ threads[t].handler = "submit_answer" /\ threads[t].pc = "store_index"
    /\ StoreThroughSess(t, [ThreadSess(t) EXCEPT !.current_q_index = threads[t].loaded + 1],
                        [threads[t] EXCEPT !.pc = "save"])
    /\ UNCHANGED <<workFile, summaryFile, audioDir, usedIds, lastSave, produced, picked,
                   faults, restarts, crashed>>

\* main.py:183  _save_session(session_id, sess)
SubmitAnswerSave(t) ==
    /\ threads[t].handler = "submit_answer" /\ threads[t].pc = "save"
    /\ SaveThroughSess(t, "feedback")

\* main.py:185-206  the follow-up is generated and synthesized, its url is
\* appended to sess["audio_files"], the response is returned
SubmitAnswerFeedback(t) ==
    /\ threads[t].handler = "submit_answer" /\ threads[t].pc = "feedback"
    /\ LET sess == ThreadSess(t)
           followup_text == generate_followup(sess.config[1].interviewer_style,
                                              sess.questions[threads[t].idx + 1].text,
                                              threads[t].arg[1].transcript, "text")
           audio_url == SynthesizedUrl(followup_text, threads[t].session_id,
                                       threads[t].idx + 1, "followup", TRUE) IN
       /\ audioDir' = FilesAfterTts(audioDir, audio_url)
       /\ produced' = FilesAfterTts(produced, audio_url)
       /\ StoreThroughSess(t, AppendAudio(sess, audio_url), Returned(threads[t], "ok"))
    /\ UNCHANGED <<workFile, summaryFile, usedIds, lastSave, picked, faults, restarts, crashed>>

\* main.py:212-218  what finish_session answers before it builds the summary
FinishGuards(session_id) ==
    LET got == GetSession(session_id) IN
    IF got = None THEN "not_found"
    ELSE IF got[1].config = None THEN "config_not_set"
    ELSE "ok"

\* main.py:212-218  finish_session: the session is fetched, the config checked
FinishCheck(t, session_id) ==
    EnterHandler(t, "finish", session_id, None, FinishGuards(session_id), "summary")

\* main.py:220-232  the summary is built from sess and written
FinishWriteSummary(t) ==
    /\ threads[t].handler = "finish" /\ threads[t].pc = "summary"
    /\ summaryFile' = [summaryFile EXCEPT ![threads[t].session_id] =
                         FileWith(SummaryDict(threads[t].session_id, ThreadSess(t)))]
    /\ threads' = [threads EXCEPT ![t] = [@ EXCEPT !.pc = "audio"]]
    /\ UNCHANGED <<SESSIONS, workFile, audioDir, usedIds, lastSave, produced, picked,
                   faults, restarts, crashed>>

\* main.py:236-254  the audio files listed in sess are deleted
FinishDeleteAudio(t) ==
    /\ threads[t].handler = "finish" /\ threads[t].pc = "audio"
    /\ audioDir' = FilesAfterCleanup(audioDir, ThreadSess(t).audio_files)
    /\ threads' = [threads EXCEPT ![t] = [@ EXCEPT !.pc = "del"]]
    /\ UNCHANGED <<SESSIONS, workFile, summaryFile, usedIds, lastSave, produced, picked,
                   faults, restarts, crashed>>

\* main.py:256  del SESSIONS[session_id]: KeyError, which nothing catches,
\* when the key is gone; otherwise the dict leaves the cache and stays
\* reachable from the sess of every thread that fetched it
FinishDelCache(t) ==
    /\ threads[t].handler = "finish" /\ threads[t].pc = "del"
    /\ LET session_id == threads[t].session_id IN
       IF SESSIONS[session_id] = None
       THEN /\ threads' = [threads EXCEPT ![t] = Returned(@, "unhandled_error")]
            /\ SESSIONS' = SESSIONS
       ELSE /\ SESSIONS' = [SESSIONS EXCEPT ![session_id] = None]
            /\ threads' = [u \in Threads |->
                             LET thr == IF threads[u].alias
                                        THEN [threads[u] EXCEPT !.alias = FALSE,
                                                                !.sess = SESSIONS[session_id]]
                                        ELSE threads[u] IN
                             IF u = t THEN [thr EXCEPT !.pc = "unlink"] ELSE thr]
    /\ UNCHANGED <<workFile, summaryFile, audioDir, usedIds, lastSave, produced, picked,
                   faults, restarts, crashed>>

\* main.py:257-264  the working copy is unlinked, a missing file is passed
\* over; the summary is returned
FinishUnlink(t) ==
    /\ threads[t].handler = "finish" /\ threads[t].pc = "unlink"
    /\ workFile' = [workFile EXCEPT ![threads[t].session_id] = UnlinkedFile(@, TRUE)]
    /\ lastSave' = [lastSave EXCEPT ![threads[t].session_id] = "none"]
    /\ threads' = [threads EXCEPT ![t] = Returned(@, "ok")]
    /\ UNCHANGED <<SESSIONS, summaryFile, audioDir, usedIds, produced, picked,
                   faults, restarts, crashed>>

\* The session after start_session, set_config(config) and k answers, each
\* with its follow-up synthesized: as _save_session wrote it at line 183
\* (SavedAfter) and as the cache holds it when the handler returns
\* (CachedAfter).
RECURSIVE SavedAfter(_, _, _, _, _), CachedAfter(_, _, _, _, _)
SavedAfter(session_id, questions, config, payload, k) ==
    IF k = 0
    THEN [InitialSession(questions) EXCEPT !.config = Some(config)]
    ELSE LET before == CachedAfter(session_id, questions, config, payload, k - 1) IN
         Accepted(before, AnswerRecord(payload, before.questions[k]))

CachedAfter(session_id, questions, config, payload, k) ==
    IF k = 0
    THEN SavedAfter(session_id, questions, config, payload, 0)
    ELSE AppendAudio(SavedAfter(session_id, questions, config, payload, k),
                     UrlOf(FileName(session_id, k, "followup")))

\* The server with one session in the middle of its interview, no request
\* running: the state Spec reaches by start_session, set_config and k
\* submit_answer calls.
InitThreads ==
    \E session_id \in SessionIds, questions \in SampledQuestions, config \in ConfigInputs,
       payload \in AnswerInputs, k \in 0..NumQuestions :
        /\ SESSIONS = [s \in SessionIds |->
                         IF s = session_id
                         THEN Some(CachedAfter(s, questions, config, payload, k))
                         ELSE None]
        /\ workFile = [s \in SessionIds |->
                         IF s = session_id
                         THEN FileWith(SavedAfter(s, questions, config, payload, k))
                         ELSE NoFile]
        /\ summaryFile = [s \in SessionIds |-> NoFile]
        /\ audioDir = { FileName(session_id, i, "followup") : i \in 1..k }
        /\ usedIds = {session_id}
        /\ lastSave = [s \in SessionIds |-> IF s = session_id THEN "ok" ELSE "none"]
        /\ produced = { FileName(session_id, i, "followup") : i \in 1..k }
        /\ picked = [s \in SessionIds |-> IF s = session_id THEN questions ELSE <<>>]
        /\ faults = 0
        /\ restarts = 0
        /\ crashed = "none"
        /\ threads = [t \in Threads |-> IdleThread]

NextThreads ==
    \/ \E t \in Threads, s \in SessionIds, c \in ConfigInputs : SetConfigGet(t, s, c)
    \/ \E t \in Threads : SetConfigAssign(t)
    \/ \E t \in Threads : SetConfigSave(t)
    \/ \E t \in Threads, s \in SessionIds, f \in VoiceFeatureInputs : UploadBaselineGet(t, s, f)
    \/ \E t \in Threads : UploadBaselineAssign(t)
    \/ \E t \in Threads : UploadBaselineSave(t)
    \/ \E t \in Threads, s \in SessionIds, p \in AnswerInputs : SubmitAnswerCheck(t, s, p)
    \/ \E t \in Threads : SubmitAnswerAppend(t)
    \/ \E t \in Threads : SubmitAnswerLoadIndex(t)
    \/ \E t \in Threads : SubmitAnswerStoreIndex(t)
    \/ \E t \in Threads : SubmitAnswerSave(t)
    \/ \E t \in Threads : SubmitAnswerFeedback(t)
    \/ \E t \in Threads, s \in SessionIds : FinishCheck(t, s)
    \/ \E t \in Threads : FinishWriteSummary(t)
    \/ \E t \in Threads : FinishDeleteAudio(t)
    \/ \E t \in Threads : FinishDelCache(t)
    \/ \E t \in Threads : FinishUnlink(t)

SpecThreads == InitThreads /\ [][NextThreads]_vars

----------------------------------------------------------------------------
(* Properties *)

\* the session get(session_id) yields, when it yields one
Live(s) == GetSession(s) # None
Sess(s) == GetSession(s)[1]

\* C1: in every reachable state the number of answers equals
\* current_q_index, in the cached session and in the working copy on disk.
C1_AnswersMatchIndex ==
    \A s \in SessionIds :
        /\ SESSIONS[s] # None =>
              Len(SESSIONS[s][1].answers) = SESSIONS[s][1].current_q_index
        /\ Loadable(workFile[s]) =>
              Len(workFile[s].data[1].answers) = workFile[s].data[1].current_q_index

\* C1 witness: two answers accepted in memory, at least one on disk.
C1_Witness ==
    \E s \in SessionIds :
        /\ SESSIONS[s] # None /\ SESSIONS[s][1].current_q_index = 2
        /\ Loadable(workFile[s]) /\ workFile[s].data[1].current_q_index >= 1

\* what a rejected request must leave alone: the session as get returns it
\* (answers, current_q_index, audio_files), the working copies, the audio
SessionUntouched(s) ==
    /\ GetSession(s)' = GetSession(s)
    /\ workFile' = workFile
    /\ audioDir' = audioDir

\* C2: an existing session with current_q_index = 3 gets "No more
\* questions" from next_question and from submit_answer, and such a request
\* leaves the session, its working copy and the audio files unchanged.
C2_ExhaustedRejected ==
    /\ [](\A s \in SessionIds :
            Live(s) /\ Sess(s).current_q_index = NumQuestions =>
                /\ NextQuestionStatus(s) = "no_more_questions"
                /\ SubmitAnswerStatus(s) = "no_more_questions")
    /\ [][\A s \in SessionIds :
            (/\ Live(s)
             /\ Sess(s).current_q_index = NumQuestions
             /\ \/ \E t \in BOOLEAN : NextQuestion(s, t)
                \/ \E p \in AnswerInputs, o \in SaveOutcomes, l \in LlmOutcomes, t \in BOOLEAN :
                      SubmitAnswer(s, p, o, l, t))
            => SessionUntouched(s)]_vars

\* C2 witness: a session with all three answers, reloaded from disk after a
\* restart, with a baseline uploaded.
C2_Witness ==
    \E s \in SessionIds :
        /\ Live(s) /\ Sess(s).current_q_index = NumQuestions
        /\ Sess(s).baseline # None
        /\ restarts > 0

\* C3: submit_answer on an existing session whose config is null gets
\* "Config not set", with or without a baseline, and leaves the session, its
\* working copy and the audio files unchanged.
C3_ConfigRequired ==
    /\ [](\A s \in SessionIds :
            Live(s) /\ Sess(s).config = None =>
                SubmitAnswerStatus(s) = "config_not_set")
    /\ [][\A s \in SessionIds :
            (/\ Live(s)
             /\ Sess(s).config = None
             /\ \E p \in AnswerInputs, o \in SaveOutcomes, l \in LlmOutcomes, t \in BOOLEAN :
                   SubmitAnswer(s, p, o, l, t))
            => SessionUntouched(s)]_vars

\* C3 witness: config still null although a baseline was uploaded.
C3_Witness ==
    \E s \in SessionIds :
        Live(s) /\ Sess(s).config = None /\ Sess(s).baseline # None

\* the step is finish_session returning its summary
FinishReturns(s) ==
    /\ FinishStatus(s, "ok") = "ok"
    /\ \E u \in BOOLEAN : FinishSession(s, "ok", u)

\* the session get would return after a restart, compared with the cached one
ReloadsAnswers(s) ==
    /\ GetSession(s)' # None
    /\ GetSession(s)'[1].answers = SESSIONS[s][1].answers
    /\ GetSession(s)'[1].current_q_index = SESSIONS[s][1].current_q_index

\* a handler that calls get on a session missing from the cache leaves the
\* loaded session in the cache
Repopulates(s) ==
    (/\ SESSIONS[s] = None
     /\ Live(s)
     /\ \/ \E t \in BOOLEAN : NextQuestion(s, t)
        \/ \E c \in ConfigInputs, o \in SaveOutcomes : SetConfig(s, c, o)
        \/ \E f \in VoiceFeatureInputs, o \in SaveOutcomes : UploadBaseline(s, f, o))
    => (/\ SESSIONS'[s] # None
        /\ SESSIONS'[s][1].answers = Sess(s).answers
        /\ SESSIONS'[s][1].current_q_index = Sess(s).current_q_index)

\* the step is a restart that empties a cache holding s with 1 or 2 answers
RestartsMidInterview(s) ==
    /\ SESSIONS[s] # None
    /\ SESSIONS[s][1].current_q_index \in {1, 2}
    /\ Restart

\* C4 as stated: for a cached session with 1 or 2 answers, a restart followed
\* by get gives back the same answers and current_q_index, and the cache
\* holds them again.
C4_RestartRoundTrip ==
    [][\A s \in SessionIds :
        /\ RestartsMidInterview(s) => ReloadsAnswers(s)
        /\ Repopulates(s)]_vars

\* C4 amended: the same, for a session whose latest save succeeded.
C4_RestartRoundTripSaved ==
    [][\A s \in SessionIds :
        /\ RestartsMidInterview(s) /\ lastSave[s] = "ok" => ReloadsAnswers(s)
        /\ Repopulates(s)]_vars

\* C4 witness: after a restart the cache holds again a session with 1 or 2
\* answers whose latest save succeeded.
C4_Witness ==
    \E s \in SessionIds :
        /\ restarts > 0 /\ lastSave[s] = "ok"
        /\ SESSIONS[s] # None /\ SESSIONS[s][1].current_q_index \in {1, 2}
        /\ SESSIONS[s][1].answers = workFile[s].data[1].answers

\* C5 as stated: when finish returns, no audio file ever produced for the
\* session is left in the audio directory.
C5_FinishRemovesAllAudio ==
    [][\A s \in SessionIds :
        FinishReturns(s) => \A f \in produced : f.sid = s => f \notin audioDir']_vars

\* C6 as stated: once finish has returned a summary, the session is neither
\* cached nor on disk and every operation on its id gets not-found.
C6_FinishedIsGone ==
    \A s \in SessionIds :
        Loadable(summaryFile[s]) =>
            /\ SESSIONS[s] = None
            /\ ~workFile[s].exists
            /\ SessionStatus(s) = "not_found"
            /\ NextQuestionStatus(s) = "not_found"
            /\ SubmitAnswerStatus(s) = "not_found"
            /\ FinishStatus(s, "ok") = "not_found"

\* the fields of a summary that no operation may change
SummaryCore(sum) ==
    <<sum.session_id, sum.interviewer_style, sum.feedback_mode, sum.baseline,
      sum.questions, sum.answers>>

\* C7 as stated: a written summary keeps its session id, config, baseline,
\* questions and answers, and its survey changes only by submit_survey and
\* is never reset to empty.
C7_SummaryImmutable ==
    [][\A s \in SessionIds :
        Loadable(summaryFile[s]) /\ Loadable(summaryFile'[s]) =>
            LET old == summaryFile[s].data[1]
                new == summaryFile'[s].data[1] IN
            /\ SummaryCore(new) = SummaryCore(old)
            /\ old.survey # None => new.survey # None
            /\ new.survey # old.survey =>
                  \E v \in SurveyInputs, o \in SaveOutcomes : SubmitSurvey(s, v, o)]_vars

\* C8 as stated: submit_survey succeeds and stores the survey whenever the
\* summary file exists, and otherwise is rejected and changes nothing.
C8_SurveyDependsOnSummaryOnly ==
    [][\A s \in SessionIds, v \in SurveyInputs, o \in SaveOutcomes :
        SubmitSurvey(s, v, o) =>
            IF summaryFile[s].exists
            THEN /\ SubmitSurveyStatus(s, o) = "ok"
                 /\ Loadable(summaryFile'[s])
                 /\ summaryFile'[s].data[1].survey = Some(v)
            ELSE /\ SubmitSurveyStatus(s, o) = "summary_not_found"
                 /\ UNCHANGED vars]_vars

\* C8 amended: submit_survey succeeds and stores the survey when the summary
\* file exists, can be read and is rewritten, whether or not the session is
\* cached or has a working copy; it fails with a server error, leaving the
\* cached session and the working copy alone, when the summary cannot be
\* read or rewritten; it is rejected and changes nothing when there is no
\* summary file.
C8_SurveyOutcome ==
    /\ [](\A s \in SessionIds, o \in SaveOutcomes :
            SubmitSurveyStatus(s, o) =
                IF ~summaryFile[s].exists THEN "summary_not_found"
                ELSE IF Loadable(summaryFile[s]) /\ o = "ok" THEN "ok"
                ELSE "server_error")
    /\ [][\A s \in SessionIds, v \in SurveyInputs, o \in SaveOutcomes :
           SubmitSurvey(s, v, o) =>
               IF ~summaryFile[s].exists
               THEN /\ SubmitSurveyStatus(s, o) = "summary_not_found"
                    /\ UNCHANGED vars
               ELSE IF Loadable(summaryFile[s]) /\ o = "ok"
               THEN /\ SubmitSurveyStatus(s, o) = "ok"
                    /\ summaryFile'[s] =
                          FileWith([summaryFile[s].data[1] EXCEPT !.survey = Some(v)])
                    /\ workFile' = workFile
               ELSE /\ SubmitSurveyStatus(s, o) = "server_error"
                    /\ SESSIONS' = SESSIONS
                    /\ workFile' = workFile]_vars

\* C8 witness: a summary carries a submitted survey although the session is
\* neither cached nor on disk.
C8_Witness ==
    \E s \in SessionIds :
        /\ Loadable(summaryFile[s])
        /\ summaryFile[s].data[1].survey # None
        /\ SESSIONS[s] = None
        /\ ~workFile[s].exists

\* C9: the summary finish returns is the one it writes, and it holds the
\* three questions picked at start with ids 1..3 in order, the answers of the
\* session in order, as many as current_q_index, and the config and baseline
\* of the session, which are the ones set last.
C9_SummaryIsSnapshot ==
    /\ [][\A s \in SessionIds :
            FinishReturns(s) =>
                LET sess == Sess(s)
                    sum == FinishResponse(s) IN
                /\ summaryFile'[s] = FileWith(sum)
                /\ sum.session_id = s
                /\ Len(sum.questions) = NumQuestions
                /\ \A i \in 1..NumQuestions :
                      /\ sum.questions[i].id = i
                      /\ sum.questions[i].text = picked[s][i]
                /\ sum.answers = sess.answers
                /\ Len(sum.answers) = sess.current_q_index
                /\ sess.config = Some([interviewer_style |-> sum.interviewer_style,
                                       feedback_mode |-> sum.feedback_mode])
                /\ sum.baseline = sess.baseline]_vars
    /\ [][\A s \in SessionIds :
            /\ \A c \in ConfigInputs :
                 Live(s) /\ (\E o \in SaveOutcomes : SetConfig(s, c, o))
                    => SESSIONS'[s][1].config = Some(c)
            /\ \A f \in VoiceFeatureInputs :
                 Live(s) /\ (\E o \in SaveOutcomes : UploadBaseline(s, f, o))
                    => SESSIONS'[s][1].baseline = Some(f)]_vars

\* C9 witness: a summary written after a full run, with three answers, a
\* baseline and the config that was set second.
C9_Witness ==
    \E s \in SessionIds :
        /\ Loadable(summaryFile[s])
        /\ Len(summaryFile[s].data[1].answers) = NumQuestions
        /\ summaryFile[s].data[1].baseline # None
        /\ summaryFile[s].data[1].interviewer_style = "challenging"

\* the session is known: it is cached or its working copy is on disk
SessionExists(s) ==
    SESSIONS[s] # None \/ workFile[s].exists

\* C10 as stated: not-found is returned only for a session (or, for survey
\* and download, a summary) that does not exist; an existing session with no
\* config gets the precondition error from submit_answer and finish; an
\* existing session with all answers given gets the sequence-exhausted error
\* from next_question and, with config set, from submit_answer.
C10_ErrorKindsDistinct ==
    \A s \in SessionIds :
        /\ SessionExists(s) =>
              /\ SessionStatus(s) # "not_found"
              /\ NextQuestionStatus(s) # "not_found"
              /\ SubmitAnswerStatus(s) # "not_found"
              /\ \A o \in SaveOutcomes : FinishStatus(s, o) # "not_found"
        /\ summaryFile[s].exists =>
              /\ DownloadStatus(s) # "summary_not_found"
              /\ \A o \in SaveOutcomes : SubmitSurveyStatus(s, o) # "summary_not_found"
        /\ Live(s) /\ Sess(s).config = None =>
              /\ SubmitAnswerStatus(s) = "config_not_set"
              /\ \A o \in SaveOutcomes : FinishStatus(s, o) = "config_not_set"
        /\ Live(s) /\ Sess(s).current_q_index = NumQuestions =>
              /\ NextQuestionStatus(s) = "no_more_questions"
              /\ Sess(s).config # None => SubmitAnswerStatus(s) = "no_more_questions"

\* C11 as stated: when start returns a session id, the working copy of that
\* id holds the initial state; start without consent is refused.
C11_StartIsDurable ==
    /\ [](StartStatus(FALSE) = "consent_not_accepted")
    /\ [][\A q \in SampledQuestions, o \in SaveOutcomes :
            StartSession(TRUE, q, o) =>
                \A s \in usedIds' \ usedIds :
                    workFile'[s] = FileWith(InitialSession(q))]_vars

\* C12 as stated: get returns not-found only for an id that is neither
\* cached nor has a working copy; a cached session is returned as cached; a
\* working copy on disk, whatever its condition, is returned and cached.
C12_GetFindsSession ==
    \A s \in SessionIds :
        /\ GetSession(s) = None => SESSIONS[s] = None /\ ~workFile[s].exists
        /\ SESSIONS[s] # None => GetSession(s) = SESSIONS[s]
        /\ SESSIONS[s] = None /\ workFile[s].exists =>
              /\ GetSession(s) # None
              /\ CacheAfterGet(s)[s] = GetSession(s)

\* the save outcomes in which _save_session fails
FailedSaves == SaveOutcomes \ {"ok"}

\* C13: a failed save in set_config, upload_baseline or submit_answer does
\* not fail the request, the cached session holds the mutated state, and
\* while the session stays cached get returns the cached state, which only
\* further mutations change.
C13_SaveFailureNotPropagated ==
    /\ [](\A s \in SessionIds : SESSIONS[s] # None => GetSession(s) = SESSIONS[s])
    /\ [][\A s \in SessionIds, o \in FailedSaves :
            Live(s) =>
              /\ \A c \in ConfigInputs :
                    SetConfig(s, c, o) =>
                      /\ SessionStatus(s) = "ok"
                      /\ SESSIONS'[s] = Some([Sess(s) EXCEPT !.config = Some(c)])
              /\ \A f \in VoiceFeatureInputs :
                    UploadBaseline(s, f, o) =>
                      /\ SessionStatus(s) = "ok"
                      /\ SESSIONS'[s] = Some([Sess(s) EXCEPT !.baseline = Some(f)])
              /\ \A p \in AnswerInputs :
                    (/\ Sess(s).config # None
                     /\ Sess(s).current_q_index < NumQuestions
                     /\ \E l \in LlmOutcomes, t \in BOOLEAN : SubmitAnswer(s, p, o, l, t))
                    => /\ SubmitAnswerStatus(s) = "ok"
                       /\ SESSIONS'[s] # None
                       /\ SESSIONS'[s][1].current_q_index = Sess(s).current_q_index + 1
                       /\ SESSIONS'[s][1].answers =
                             Append(Sess(s).answers,
                                    AnswerRecord(p, Sess(s).questions[Sess(s).current_q_index + 1]))
                       /\ SESSIONS'[s][1].config = Sess(s).config
                       /\ SESSIONS'[s][1].baseline = Sess(s).baseline]_vars
    /\ [][\A s \in SessionIds :
            SESSIONS[s] # None /\ SESSIONS'[s] # None =>
              /\ SESSIONS'[s][1].config # SESSIONS[s][1].config =>
                    \E c \in ConfigInputs, o \in SaveOutcomes : SetConfig(s, c, o)
              /\ SESSIONS'[s][1].baseline # SESSIONS[s][1].baseline =>
                    \E f \in VoiceFeatureInputs, o \in SaveOutcomes : UploadBaseline(s, f, o)
              /\ SESSIONS'[s][1].answers # SESSIONS[s][1].answers =>
                    \E p \in AnswerInputs, o \in SaveOutcomes, l \in LlmOutcomes, t \in BOOLEAN :
                        SubmitAnswer(s, p, o, l, t)]_vars

\* C13 witness: an answer accepted with a failed save: the cached session is
\* one answer ahead of the working copy.
C13_Witness ==
    \E s \in SessionIds :
        /\ lastSave[s] = "failed"
        /\ SESSIONS[s] # None /\ SESSIONS[s][1].current_q_index = 1
        /\ Loadable(workFile[s]) /\ workFile[s].data[1].current_q_index = 0

\* the step is submit_answer accepting an answer, returning or interrupted
\* by a crash after its save
AcceptsAnswer(s) ==
    /\ SubmitAnswerStatus(s) = "ok"
    /\ \/ \E p \in AnswerInputs, o \in SaveOutcomes, l \in LlmOutcomes, t \in BOOLEAN :
             SubmitAnswer(s, p, o, l, t)
       \/ \E p \in AnswerInputs, c \in AnswerCrashPoints : CrashInSubmitAnswer(s, p, c)

\* current_q_index as get returns it moves by +1, and only when an answer is
\* accepted
IndexStep(s) ==
    LET i == GetSession(s)[1].current_q_index
        j == GetSession(s)'[1].current_q_index IN
    /\ j = i \/ j = i + 1
    /\ j = i + 1 => AcceptsAnswer(s)

\* current_q_index as get returns it is within 0..3
IndexInRange ==
    \A s \in SessionIds : Live(s) => Sess(s).current_q_index \in 0..NumQuestions

\* the session a start step creates has current_q_index 0
StartsAtZero ==
    \A s \in usedIds' \ usedIds :
        (\E q \in SampledQuestions, o \in SaveOutcomes : StartSession(TRUE, q, o))
        => GetSession(s)' # None /\ GetSession(s)'[1].current_q_index = 0

\* the step drops s from the cache: a restart, a crash, a finish
CacheDropped(s) ==
    SESSIONS[s] # None /\ SESSIONS'[s] = None

\* C14 as stated: current_q_index as get returns it is 0 at creation, stays
\* within 0..3, never decreases and changes only by +1 on an accepted
\* submit_answer, restarts included.
C14_IndexMonotone ==
    /\ []IndexInRange
    /\ [][StartsAtZero]_vars
    /\ [][\A s \in SessionIds : Live(s) /\ Live(s)' => IndexStep(s)]_vars

\* C14 amended: the same, except across a step that drops the session from
\* the cache while its latest save has failed.
C14_IndexMonotoneSaved ==
    /\ []IndexInRange
    /\ [][StartsAtZero]_vars
    /\ [][\A s \in SessionIds :
            (/\ Live(s)
             /\ Live(s)'
             /\ CacheDropped(s) => lastSave[s] = "ok")
            => IndexStep(s)]_vars

\* C14 witness: a session that went through a failure and a restart and
\* reached the last index, cached and saved.
C14_Witness ==
    \E s \in SessionIds :
        /\ restarts > 0 /\ faults > 0
        /\ SESSIONS[s] # None /\ SESSIONS[s][1].current_q_index = NumQuestions
        /\ lastSave[s] = "ok"
        /\ Loadable(workFile[s]) /\ workFile[s].data[1].current_q_index = NumQuestions

\* the question at the cursor of the session get returns
CurrentQuestion(s) ==
    Sess(s).questions[Sess(s).current_q_index + 1]

\* what next_question and submit_answer return when the synthesis fails: the
\* question, or the feedback text, with an empty audio reference
DegradedResponses(s) ==
    /\ NextQuestionStatus(s) = "ok" =>
          NextQuestionResponse(s, FALSE) =
              [id |-> CurrentQuestion(s).id, text |-> CurrentQuestion(s).text,
               audio_url |-> EmptyUrl]
    /\ SubmitAnswerStatus(s) = "ok" =>
          \A p \in AnswerInputs, l \in LlmOutcomes :
              LET r == SubmitAnswerResponse(s, p, l, FALSE) IN
              /\ r.audio_url = EmptyUrl
              /\ r.followup_text # ""
              /\ r.followup_text =
                    generate_followup(Sess(s).config[1].interviewer_style,
                                      CurrentQuestion(s).text, p.transcript, l)

\* next_question with a failed synthesis changes neither the session nor a file
DegradedNextQuestion(s) ==
    NextQuestionStatus(s) = "ok" /\ NextQuestion(s, FALSE) =>
        /\ SESSIONS'[s] = Some(Sess(s))
        /\ audioDir' = audioDir
        /\ workFile' = workFile

\* submit_answer with a failed synthesis accepts the answer and saves it, and
\* adds nothing to audio_files
DegradedSubmitAnswer(s) ==
    \A p \in AnswerInputs, o \in SaveOutcomes :
        (/\ SubmitAnswerStatus(s) = "ok"
         /\ \E l \in LlmOutcomes : SubmitAnswer(s, p, o, l, FALSE))
        => LET accepted == Accepted(Sess(s), AnswerRecord(p, CurrentQuestion(s))) IN
           /\ SESSIONS'[s] = Some(accepted)
           /\ accepted.answers = Append(Sess(s).answers, AnswerRecord(p, CurrentQuestion(s)))
           /\ accepted.current_q_index = Sess(s).current_q_index + 1
           /\ accepted.audio_files = Sess(s).audio_files
           /\ audioDir' = audioDir
           /\ o = "ok" => workFile'[s] = FileWith(accepted)

\* C15: when the synthesis fails, next_question still returns the question
\* and submit_answer still accepts and saves the answer and returns the
\* feedback text, both with an empty audio reference, and nothing is added
\* to audio_files.
C15_TtsFailureDegrades ==
    /\ [](\A s \in SessionIds : DegradedResponses(s))
    /\ [][\A s \in SessionIds : DegradedNextQuestion(s)]_vars
    /\ [][\A s \in SessionIds : DegradedSubmitAnswer(s)]_vars

\* C15 witness: an answer accepted and saved without any audio ever
\* produced, the process never restarted.
C15_Witness ==
    \E s \in SessionIds :
        /\ restarts = 0 /\ faults > 0 /\ produced = {}
        /\ SESSIONS[s] # None /\ SESSIONS[s][1].current_q_index = 1
        /\ SESSIONS[s][1].audio_files = {}
        /\ workFile[s] = FileWith(SESSIONS[s][1])

\* a session with an accepted answer has a config, in the cache and on disk;
\* a readable summary carries a config; finish refuses a session without one
ConfigBeforeProgress(s) ==
    /\ SESSIONS[s] # None /\ SESSIONS[s][1].current_q_index > 0 =>
          SESSIONS[s][1].config # None
    /\ Loadable(workFile[s]) /\ workFile[s].data[1].current_q_index > 0 =>
          workFile[s].data[1].config # None
    /\ Loadable(summaryFile[s]) =>
          /\ summaryFile[s].data[1].interviewer_style \in InterviewerStyle
          /\ summaryFile[s].data[1].feedback_mode \in FeedbackMode
    /\ Live(s) /\ Sess(s).config = None =>
          \A o \in SaveOutcomes : FinishStatus(s, o) = "config_not_set"

\* a step that writes the summary file is taken on a session with a config
SummaryNeedsConfig(s) ==
    summaryFile'[s] # summaryFile[s] /\ Live(s) => Sess(s).config # None

\* finish on a session without config changes no file and not the session
FinishRefused(s) ==
    (/\ Live(s)
     /\ Sess(s).config = None
     /\ \E o \in SaveOutcomes, u \in BOOLEAN : FinishSession(s, o, u))
    => /\ summaryFile' = summaryFile
       /\ audioDir' = audioDir
       /\ workFile' = workFile
       /\ GetSession(s)' = GetSession(s)

\* C16: a session with an accepted answer has a non-null config; a summary
\* is written only for a session with a non-null config; finish on a session
\* with null config gets "Config not set" and changes neither the summary,
\* the audio files, the session nor its working copy.
C16_ConfigPrecedes ==
    /\ [](\A s \in SessionIds : ConfigBeforeProgress(s))
    /\ [][\A s \in SessionIds : SummaryNeedsConfig(s)]_vars
    /\ [][\A s \in SessionIds : FinishRefused(s)]_vars

\* C16 witness: a session without config that has a baseline and question
\* audio on disk, reloaded after a restart.
C16_Witness ==
    \E s \in SessionIds :
        /\ Live(s) /\ Sess(s).config = None /\ Sess(s).baseline # None
        /\ audioDir # {}
        /\ restarts > 0

\* C17 as stated: after a crash inside finish that left the summary and the
\* working copy both on disk, the session is not live any more: get does not
\* return it, no answer is accepted and no finish writes the summary again.
C17_OrphanIgnored ==
    \A s \in SessionIds :
        crashed = "finish" /\ summaryFile[s].exists /\ workFile[s].exists =>
            /\ ~Live(s)
            /\ SubmitAnswerStatus(s) # "ok"
            /\ \A o \in SaveOutcomes : FinishStatus(s, o) \notin {"ok", "server_error"}

\* the lifecycle fields of a session
Lifecycle(sess) ==
    <<sess.current_q_index, sess.answers, sess.config, sess.baseline, sess.questions>>

\* next_question returns the question at the cursor, numbered from 1
ServesCursor(s) ==
    NextQuestionStatus(s) = "ok" =>
        \A t \in BOOLEAN :
            /\ NextQuestionResponse(s, t).id = Sess(s).current_q_index + 1
            /\ NextQuestionResponse(s, t).id = CurrentQuestion(s).id
            /\ NextQuestionResponse(s, t).text = CurrentQuestion(s).text
            /\ NextQuestionResponse(s, t).text = picked[s][Sess(s).current_q_index + 1]

\* a served next_question leaves the lifecycle fields and the working copy
\* alone, so the next call is served the same question
ReadsOnly(s) ==
    (/\ NextQuestionStatus(s) = "ok"
     /\ \E t \in BOOLEAN : NextQuestion(s, t))
    => /\ GetSession(s)' # None
       /\ Lifecycle(GetSession(s)'[1]) = Lifecycle(Sess(s))
       /\ workFile' = workFile
       /\ NextQuestionStatus(s)' = "ok"
       /\ \A t \in BOOLEAN :
             /\ NextQuestionResponse(s, t)'.id = NextQuestionResponse(s, t).id
             /\ NextQuestionResponse(s, t)'.text = NextQuestionResponse(s, t).text

\* C18: a served next_question returns the question at current_q_index,
\* with id current_q_index + 1, and leaves current_q_index, answers, config,
\* baseline and questions unchanged, so that a repeated call returns the
\* same id and text.
C18_NextQuestionReadsOnly ==
    /\ [](\A s \in SessionIds : ServesCursor(s))
    /\ [][\A s \in SessionIds : ReadsOnly(s)]_vars

\* C18 witness: the second question was served after one accepted answer,
\* and the cursor and the answers are as they were.
C18_Witness ==
    \E s \in SessionIds :
        /\ SESSIONS[s] # None
        /\ SESSIONS[s][1].current_q_index = 1
        /\ Len(SESSIONS[s][1].answers) = 1
        /\ UrlOf(FileName(s, 2, "question")) \in SESSIONS[s][1].audio_files

\* a crash inside generate_followup or synthesize_tts leaves a working copy
\* that get reloads with the new answer and the advanced index
SavedBeforeCollaborators(s) ==
    \A p \in AnswerInputs :
        (/\ SubmitAnswerStatus(s) = "ok"
         /\ \E c \in AnswerCrashPoints : CrashInSubmitAnswer(s, p, c))
        => /\ SESSIONS'[s] = None
           /\ GetSession(s)' # None
           /\ GetSession(s)'[1].answers =
                 Append(Sess(s).answers, AnswerRecord(p, CurrentQuestion(s)))
           /\ GetSession(s)'[1].current_q_index = Sess(s).current_q_index + 1

\* the working copy a returning submit_answer saved holds the new answer and
\* not yet the audio of its feedback
SavedWithoutFeedbackAudio(s) ==
    \A p \in AnswerInputs :
        (/\ SubmitAnswerStatus(s) = "ok"
         /\ \E l \in LlmOutcomes, t \in BOOLEAN : SubmitAnswer(s, p, "ok", l, t))
        => workFile'[s] = FileWith(Accepted(Sess(s), AnswerRecord(p, CurrentQuestion(s))))

\* C19: submit_answer writes the working copy with the new answer and the
\* incremented index before it calls feedback generation and synthesis, so
\* after a crash inside either of them get returns the session with the
\* answer included and the index advanced.
C19_SavedBeforeFeedback ==
    /\ [][\A s \in SessionIds : SavedBeforeCollaborators(s)]_vars
    /\ [][\A s \in SessionIds : SavedWithoutFeedbackAudio(s)]_vars

\* C19 witness: the process crashed inside submit_answer and the session on
\* disk, not cached, has the answer of the interrupted request.
C19_Witness ==
    \E s \in SessionIds :
        /\ crashed = "answer"
        /\ SESSIONS[s] = None
        /\ Live(s)
        /\ Sess(s).current_q_index = 2
        /\ Len(Sess(s).answers) = 2

\* C20 as stated: the answer stored at position k carries the text and the
\* id of the k-th question, in the cache and in the working copy.
C20_AnswersMatchQuestions ==
    \A s \in SessionIds :
        /\ Live(s) =>
              \A k \in 1..Len(Sess(s).answers) :
                  /\ Sess(s).answers[k].question_text = Sess(s).questions[k].text
                  /\ Sess(s).answers[k].question_id = Sess(s).questions[k].id
        /\ Loadable(workFile[s]) =>
              \A k \in 1..Len(workFile[s].data[1].answers) :
                  /\ workFile[s].data[1].answers[k].question_text =
                        workFile[s].data[1].questions[k].text
                  /\ workFile[s].data[1].answers[k].question_id =
                        workFile[s].data[1].questions[k].id

\* a submit_answer request that has appended its answer (main.py:181) and has
\* not yet stored the incremented index (main.py:182)
BetweenAppendAndIncrement(t) ==
    threads[t].handler = "submit_answer" /\ threads[t].pc \in {"load_index", "store_index"}

\* C21: under every interleaving of concurrent submit_answer requests on one
\* session no update is lost and no answer is accepted past the limit: the
\* index and the number of answers never exceed the number of questions,
\* and whenever no request stands between its append and its increment the
\* number of answers equals current_q_index.
C21_NoLostUpdate ==
    \A s \in SessionIds :
        Live(s) =>
            /\ Sess(s).current_q_index <= NumQuestions
            /\ Len(Sess(s).answers) <= NumQuestions
            /\ (\A t \in Threads : ~BetweenAppendAndIncrement(t)) =>
                  Len(Sess(s).answers) = Sess(s).current_q_index

\* a finish_session request of thread t on session s has returned its summary
FinishReturned(t, s) ==
    /\ threads[t].handler = "finish"
    /\ threads[t].session_id = s
    /\ threads[t].result = "ok"

\* C22: finish removes the session atomically from the caller's perspective.
\* Under every interleaving of finish with a concurrent set_config,
\* upload_baseline, submit_answer or second finish on the same session, no
\* finish ends in an unhandled error, and once a finish has returned the
\* working copy of that id does not exist and get returns not-found.
C22_FinishAtomic ==
    \A t \in Threads :
        /\ threads[t].handler = "finish" => threads[t].result # "unhandled_error"
        /\ \A s \in SessionIds :
              FinishReturned(t, s) => ~workFile[s].exists /\ GetSession(s) = None

====
